---- MODULE Spec2Model ----
(***************************************************************************)
(* Model of src/components/canvas/Computers.jsx: the ComputersCanvas       *)
(* component (media-query driven isMobile flag), the Computers component   *)
(* (model or FallbackComputer), and the useCleanModel hook whose effect     *)
(* clones the loaded glTF scene and sanitises every mesh geometry.         *)
(*                                                                         *)
(* JavaScript values are encoded so that TLC can compare them:             *)
(*   - a number is a record [cls, v]: finite v, NaN, +Infinity, -Infinity; *)
(*   - a nullable reference is <<>> (null/undefined) or <<x>>;             *)
(*   - geometries live in a heap (geoms) and nodes hold geometry ids, so   *)
(*     that two nodes holding the same id share one geometry object.       *)
(* Scales and coordinates are kept as integers: scale * 100, coord * 10.   *)
(***************************************************************************)
EXTENDS Integers, Sequences, FiniteSets, TLC

\* Bounds of the explored inputs.
MaxChildren == 2
MaxElements == 2

VARIABLES
    loadState,      \* useGLTF's resource: "loading", "loaded" or "failed"
    gltfScene,      \* gltf.scene: <<>> until loaded, then <<scene>>
    geoms,          \* heap of BufferGeometry objects, by geometry id
    mediaMatches,   \* mediaQuery.matches of "(max-width: 500px)"
    isMobile,       \* useState(false) of ComputersCanvas
    mountPhase,     \* "rendered" (effect not yet run), "mounted", "unmounted"
    listening,      \* handleMediaQueryChange is registered on the media query
    cleanScene,     \* useState(null) of useCleanModel: <<>> or <<scene>>
    effectDeps,     \* dependency array of the last committed useCleanModel effect
    effectPending,  \* the useCleanModel effect is scheduled to run
    view,           \* what the Suspense boundary currently shows
    before,         \* history: the heap as it was when the cleaning pass began
    computed,       \* history: per node, what computeBoundingSphere did
    cleanRuns,      \* history: number of cleaning passes run
    scanned         \* history: number of array elements the passes looked at

vars == <<loadState, gltfScene, geoms, mediaMatches, isMobile, mountPhase,
          listening, cleanScene, effectDeps, effectPending, view,
          before, computed, cleanRuns, scanned>>

----------------------------------------------------------------------------
\* JavaScript numbers

Fin(n) == [cls |-> "finite", v |-> n]
NaN == [cls |-> "nan", v |-> 0]
PosInfinity == [cls |-> "+inf", v |-> 0]
NegInfinity == [cls |-> "-inf", v |-> 0]

isNaN(x) == x.cls = "nan"
isFinite(x) == x.cls = "finite"

\* The elements a loaded position array may hold.
ArrayElements == {Fin(2), NaN, PosInfinity, NegInfinity}

----------------------------------------------------------------------------
\* three.js objects

\* new THREE.Sphere(new THREE.Vector3(0, 0, 0), 5)
DefaultSphere == [center |-> <<0, 0, 0>>, radius |-> Fin(5)]

\* Centre of a sphere that computeBoundingSphere derived from the data.
DataCenter == <<1, 0, 0>>

\* geometry.attributes.position: a BufferAttribute over `array`
PositionAttribute(array) == <<[array |-> array, version |-> 0]>>

\* A BufferGeometry as the loader hands it over.
Geometry(position) == <<[position |-> position, boundingSphere |-> <<>>]>>

\* The children of a scene whose position array holds exactly k elements: a
\* mesh or another Object3D. Those holding none include the children without
\* geometry and those whose geometry has no position attribute.
NodeInputs(k) ==
    {[isMesh |-> m, geometry |-> g] :
        m \in BOOLEAN,
        g \in {Geometry(PositionAttribute(a)) : a \in [1..k -> ArrayElements]}
              \cup (IF k = 0 THEN {<<>>, Geometry(<<>>)} ELSE {})}

\* The root of gltf.scene is a Group: no mesh, no geometry.
RootNode == [isMesh |-> FALSE, geometry |-> <<>>]

RECURSIVE Sum(_)
Sum(counts) == IF counts = <<>> THEN 0 ELSE Head(counts) + Sum(Tail(counts))

\* The element counts of the children of a scene: at most MaxChildren
\* children that hold at most MaxElements array elements in all.
ElementCounts ==
    {counts \in UNION {[1..n -> 0..MaxElements] : n \in 0..MaxChildren} :
        Sum(counts) <= MaxElements}

\* The lists of children whose position arrays have the given element counts.
RECURSIVE ChildLists(_)
ChildLists(counts) ==
    IF counts = <<>> THEN {<<>>}
    ELSE {<<child>> \o rest :
            child \in NodeInputs(Head(counts)), rest \in ChildLists(Tail(counts))}

\* Nodes in traversal order; node i refers to geometry id i when it has one.
SceneNodes(children) ==
    <<RootNode>> \o
    [i \in 1..Len(children) |->
        [isMesh |-> children[i].isMesh,
         geometry |-> IF children[i].geometry = <<>> THEN <<>> ELSE <<i + 1>>]]

SceneGeometries(children) ==
    [id \in {i + 1 : i \in {j \in 1..Len(children) : children[j].geometry # <<>>}} |->
        children[id - 1].geometry[1]]

\* Clone that hands back the scene it was given.
CloneSame(scene) == scene

\* Object3D.clone(): new node objects; Mesh.copy assigns source.geometry, so
\* the clone's meshes hold the same geometry ids as the source's meshes.
Clone(scene) == [id |-> "cleanedScene", nodes |-> scene.nodes]

\* What geometry.computeBoundingSphere() may do on a geometry whose position
\* array is `array`: throw, or leave a sphere whose radius is NaN (non-finite
\* morph data), 0 (no extent) or positive.
ComputeOutcomes(array) ==
    {[throws |-> TRUE, radius |-> NaN], [throws |-> FALSE, radius |-> Fin(0)]}
    \cup (IF Len(array) = 0 THEN {}
          ELSE {[throws |-> FALSE, radius |-> NaN],
                [throws |-> FALSE, radius |-> Fin(3)]})

----------------------------------------------------------------------------
\* useCleanModel: the traversal callback

\* FixLoop with the test reduced to isNaN(array[i]).
RECURSIVE FixLoopNaNOnly(_, _, _)
FixLoopNaNOnly(array, i, needsFix) ==
    IF ~(i <= Len(array))
    THEN [array |-> array, needsFix |-> needsFix, steps |-> i - 1]
    ELSE IF isNaN(array[i])
         THEN FixLoopNaNOnly([array EXCEPT ![i] = Fin(0)], i + 1, TRUE)
         ELSE FixLoopNaNOnly(array, i + 1, needsFix)

\* for (let i = 0; i < array.length; i++) { if (isNaN || !isFinite) ... }
RECURSIVE FixLoop(_, _, _)
FixLoop(array, i, needsFix) ==
    IF ~(i <= Len(array))
    THEN [array |-> array, needsFix |-> needsFix, steps |-> i - 1]
    ELSE IF isNaN(array[i]) \/ ~isFinite(array[i])
         THEN FixLoop([array EXCEPT ![i] = Fin(0)], i + 1, TRUE)
         ELSE FixLoop(array, i + 1, needsFix)

\* MarkNeedsUpdate without the test of needsFix.
MarkNeedsUpdateAlways(position, needsFix) == [position EXCEPT !.version = @ + 1]

\* if (needsFix) position.needsUpdate = true  (the setter bumps version)
MarkNeedsUpdate(position, needsFix) ==
    IF needsFix THEN [position EXCEPT !.version = @ + 1] ELSE position

\* TryComputeBoundingSphere without the try/catch: the exception leaves the
\* callback and the bounding sphere stays as it was.
ComputeBoundingSphereUncaught(boundingSphere, outcome) ==
    IF outcome.throws
    THEN [boundingSphere |-> boundingSphere, thrown |-> TRUE]
    ELSE [boundingSphere |-> <<[center |-> DataCenter, radius |-> outcome.radius]>>,
          thrown |-> FALSE]

\* try { geometry.computeBoundingSphere() } catch { boundingSphere = default }
TryComputeBoundingSphere(boundingSphere, outcome) ==
    IF outcome.throws
    THEN [boundingSphere |-> <<DefaultSphere>>, thrown |-> FALSE]
    ELSE [boundingSphere |-> <<[center |-> DataCenter, radius |-> outcome.radius]>>,
          thrown |-> FALSE]

\* ForceBoundingSphere without the test radius === 0.
ForceBoundingSphereNonZero(boundingSphere) ==
    IF boundingSphere = <<>> \/ isNaN(boundingSphere[1].radius)
    THEN <<DefaultSphere>>
    ELSE boundingSphere

\* if (!boundingSphere || isNaN(radius) || radius === 0) boundingSphere = default
ForceBoundingSphere(boundingSphere) ==
    IF boundingSphere = <<>>
       \/ isNaN(boundingSphere[1].radius)
       \/ boundingSphere[1].radius = Fin(0)
    THEN <<DefaultSphere>>
    ELSE boundingSphere

\* if (child.isMesh && child.geometry) { ... if (position) { ... } }
Cleanable(heap, child) ==
    /\ child.isMesh
    /\ child.geometry # <<>>
    /\ heap[child.geometry[1]].position # <<>>

\* The callback of cleanedScene.traverse on one node.
VisitNode(heap, child, outcome) ==
    IF ~Cleanable(heap, child)
    THEN [heap |-> heap, thrown |-> FALSE, steps |-> 0, visited |-> FALSE]
    ELSE
        LET id == child.geometry[1]
            geometry == heap[id]
            fixed == FixLoop(geometry.position[1].array, 1, FALSE)
            position ==
                MarkNeedsUpdate([geometry.position[1] EXCEPT !.array = fixed.array],
                                fixed.needsFix)
            tried == TryComputeBoundingSphere(geometry.boundingSphere, outcome)
            sphere ==
                IF tried.thrown THEN geometry.boundingSphere
                ELSE ForceBoundingSphere(tried.boundingSphere)
        IN  [heap |-> [heap EXCEPT ![id] =
                          [position |-> <<position>>, boundingSphere |-> sphere]],
             thrown |-> tried.thrown,
             steps |-> fixed.steps,
             visited |-> TRUE]

\* What computeBoundingSphere may do when the callback reaches `child`.
NodeOutcomes(heap, child) ==
    IF Cleanable(heap, child)
    THEN ComputeOutcomes(heap[child.geometry[1]].position[1].array)
    ELSE {[throws |-> FALSE, radius |-> Fin(0)]}

\* cleanedScene.traverse(callback) from node i on: every way the traversal
\* can end, one per behaviour of computeBoundingSphere on the nodes it meets.
\* An exception that leaves the callback ends the traversal.
RECURSIVE Traverse(_, _, _, _, _)
Traverse(heap, nodes, i, log, steps) ==
    IF i > Len(nodes)
    THEN {[heap |-> heap, thrown |-> FALSE, computed |-> log, steps |-> steps]}
    ELSE UNION {
        LET r == VisitNode(heap, nodes[i], outcome)
            log2 == IF r.visited THEN [log EXCEPT ![i] = <<outcome>>] ELSE log
        IN  IF r.thrown
            THEN {[heap |-> r.heap, thrown |-> TRUE, computed |-> log2,
                   steps |-> steps + r.steps]}
            ELSE Traverse(r.heap, nodes, i + 1, log2, steps + r.steps) :
        outcome \in NodeOutcomes(heap, nodes[i])}

----------------------------------------------------------------------------
\* Rendering

\* <FallbackComputer isMobile />: the two box meshes
FallbackComputer(mobile) ==
    [kind |-> "fallback", object |-> <<>>,
     parts |-> <<[scale |-> IF mobile THEN 30 ELSE 60,
                  position |-> IF mobile THEN <<0, -30, -22>> ELSE <<0, -37, -14>>],
                 [scale |-> IF mobile THEN 25 ELSE 50,
                  position |-> IF mobile THEN <<0, -15, -25>> ELSE <<0, -20, -20>>]>>]

\* <primitive object={cleanScene} scale=... position=... />
Primitive(scene, mobile) ==
    [kind |-> "model", object |-> <<scene.id>>,
     parts |-> <<[scale |-> IF mobile THEN 30 ELSE 60,
                  position |-> IF mobile THEN <<0, -30, -22>> ELSE <<0, -37, -14>>]>>]

\* <CanvasLoader />, the fallback of the Suspense boundary
CanvasLoader == [kind |-> "loader", object |-> <<>>, parts |-> <<>>]

\* Nothing of the canvas content is left after an uncaught render error.
ErrorView == [kind |-> "error", object |-> <<>>, parts |-> <<>>]

\* Computers = ({ isMobile }) => ...; the result, or how the render ended
Computers(load, clean, mobile) ==
    IF load = "loading" THEN [ended |-> "suspended", element |-> CanvasLoader]
    ELSE IF load = "failed" THEN [ended |-> "threw", element |-> ErrorView]
    ELSE IF clean = <<>>
         THEN [ended |-> "rendered", element |-> FallbackComputer(mobile)]
         ELSE [ended |-> "rendered", element |-> Primitive(clean[1], mobile)]

\* <Suspense fallback={<CanvasLoader />}> ... <Computers isMobile /> </Suspense>
SuspenseView(load, clean, mobile) == Computers(load, clean, mobile).element

\* DepsChanged of an effect without dependency array: it runs after every commit.
DepsChangedAlways(prevDeps, deps) == TRUE

\* useEffect(..., [gltf.scene]): run after the first commit and whenever the
\* dependency differs from the one of the previous commit.
DepsChanged(prevDeps, deps) == prevDeps # deps

----------------------------------------------------------------------------
\* Behaviour

Init ==
    /\ loadState = "loading"
    /\ gltfScene = <<>>
    /\ geoms = <<>>
    /\ mediaMatches \in BOOLEAN
    /\ isMobile = FALSE
    /\ mountPhase = "rendered"
    /\ listening = FALSE
    /\ cleanScene = <<>>
    /\ effectDeps = <<>>
    /\ effectPending = FALSE
    /\ view = SuspenseView("loading", <<>>, FALSE)
    /\ before = <<>>
    /\ computed = <<>>
    /\ cleanRuns = 0
    /\ scanned = 0

\* handleMediaQueryChange that sets the flag instead of copying event.matches.
handleMediaQueryChangeSet(event) == TRUE

\* const handleMediaQueryChange = (event) => { setIsMobile(event.matches) }:
\* the next value of isMobile
handleMediaQueryChange(event) == event.matches

\* The commit of a Computers render that returned: its effect is scheduled
\* when its dependency array changed.
CommitEffect(load, scene) ==
    IF load = "loaded"
    THEN /\ effectDeps' = <<scene[1].id>>
         /\ effectPending' = (effectPending \/ DepsChanged(effectDeps, <<scene[1].id>>))
    ELSE UNCHANGED <<effectDeps, effectPending>>

\* The mount effect of ComputersCanvas.
MountEffect ==
    /\ mountPhase = "rendered"
    /\ mountPhase' = "mounted"
    /\ isMobile' = mediaMatches
    /\ listening' = TRUE
    /\ view' = SuspenseView(loadState, cleanScene, isMobile')
    /\ CommitEffect(loadState, gltfScene)
    /\ UNCHANGED <<loadState, gltfScene, geoms, mediaMatches, cleanScene,
                   before, computed, cleanRuns, scanned>>

\* The media query changes its match state; the browser fires 'change' at
\* the registered listener, handleMediaQueryChange.
MediaQueryChange ==
    /\ mediaMatches' = ~mediaMatches
    /\ IF listening
       THEN /\ isMobile' = handleMediaQueryChange([matches |-> mediaMatches'])
            /\ view' = SuspenseView(loadState, cleanScene, isMobile')
            /\ CommitEffect(loadState, gltfScene)
       ELSE UNCHANGED <<isMobile, view, effectDeps, effectPending>>
    /\ UNCHANGED <<loadState, gltfScene, geoms, mountPhase, listening, cleanScene,
                   before, computed, cleanRuns, scanned>>

\* useGLTF's load resolves: the suspended Computers renders again.
LoadSucceeded ==
    /\ loadState = "loading"
    /\ \E counts \in ElementCounts : \E children \in ChildLists(counts) :
        /\ gltfScene' = <<[id |-> "gltf.scene", nodes |-> SceneNodes(children)]>>
        /\ geoms' = SceneGeometries(children)
    /\ loadState' = "loaded"
    /\ view' = SuspenseView("loaded", cleanScene, isMobile)
    /\ CommitEffect("loaded", gltfScene')
    /\ UNCHANGED <<mediaMatches, isMobile, mountPhase, listening, cleanScene,
                   before, computed, cleanRuns, scanned>>

\* useGLTF's load rejects: Computers throws while rendering, no boundary in
\* this file catches it, and the tree is unmounted (the cleanup of the mount
\* effect removes the listener).
LoadFailed ==
    /\ loadState = "loading"
    /\ loadState' = "failed"
    /\ view' = SuspenseView("failed", cleanScene, isMobile)
    /\ mountPhase' = "unmounted"
    /\ listening' = FALSE
    /\ UNCHANGED <<gltfScene, geoms, mediaMatches, isMobile, cleanScene,
                   effectDeps, effectPending, before, computed, cleanRuns, scanned>>

\* The effect of useCleanModel: clone, traverse, setCleanScene, re-render.
CleanEffect ==
    /\ effectPending
    /\ gltfScene # <<>>
    /\ LET cleanedScene == Clone(gltfScene[1])
       IN \E r \in Traverse(geoms, cleanedScene.nodes, 1,
                              [i \in 1..Len(cleanedScene.nodes) |-> <<>>], 0) :
            /\ geoms' = r.heap
            /\ computed' = r.computed
            /\ scanned' = scanned + r.steps
            /\ cleanScene' = IF r.thrown THEN cleanScene ELSE <<cleanedScene>>
    /\ before' = geoms
    /\ cleanRuns' = cleanRuns + 1
    /\ view' = SuspenseView(loadState, cleanScene', isMobile)
    /\ effectDeps' = <<gltfScene[1].id>>
    /\ effectPending' = DepsChanged(effectDeps, <<gltfScene[1].id>>)
    /\ UNCHANGED <<loadState, gltfScene, mediaMatches, isMobile, mountPhase, listening>>

Next ==
    \/ MountEffect
    \/ MediaQueryChange
    \/ LoadSucceeded
    \/ LoadFailed
    \/ CleanEffect

Spec == Init /\ [][Next]_vars

----------------------------------------------------------------------------
\* Properties

\* The nodes of the loaded scene, in traversal order (the clone has the same).
LoadedNodes == IF gltfScene = <<>> THEN <<>> ELSE gltfScene[1].nodes

\* A cleaning pass has run.
Cleaned == cleanRuns >= 1

\* Node i held, when the pass began, a mesh with a geometry with a position.
WasCleanable(i) == Cleanable(before, LoadedNodes[i])

GeometryOf(i) == geoms[LoadedNodes[i].geometry[1]]
GeometryBefore(i) == before[LoadedNodes[i].geometry[1]]
ArrayOf(i) == GeometryOf(i).position[1].array
ArrayBefore(i) == GeometryBefore(i).position[1].array

HasNonFinite(array) == \E k \in 1..Len(array) : array[k].cls # "finite"

\* The part has the first placement when isMobile is true, else the second.
Placed(part, small, large) == part = (IF isMobile THEN small ELSE large)

MainSmall == [scale |-> 30, position |-> <<0, -30, -22>>]
MainLarge == [scale |-> 60, position |-> <<0, -37, -14>>]
BaseSmall == [scale |-> 25, position |-> <<0, -15, -25>>]
BaseLarge == [scale |-> 50, position |-> <<0, -20, -20>>]

\* C1: while the model is loading, and after its load has failed, what is
\* shown is the FallbackComputer placeholder (not the Suspense loader, not
\* the remains of an uncaught error).
C1_PlaceholderWhileLoadingOrFailed ==
    loadState \in {"loading", "failed"} => view.kind = "fallback"

\* C2: after the cleaning pass every mesh position array has its length
\* unchanged and holds finite numbers only: what was NaN, +Infinity or
\* -Infinity is 0, what was finite is the same value at the same index.
C2_PositionsFinite ==
    Cleaned =>
        \A i \in 1..Len(LoadedNodes) :
            WasCleanable(i) =>
                /\ Len(ArrayOf(i)) = Len(ArrayBefore(i))
                /\ \A k \in 1..Len(ArrayBefore(i)) :
                    /\ ArrayOf(i)[k].cls = "finite"
                    /\ ArrayBefore(i)[k].cls \in {"nan", "+inf", "-inf"}
                          => ArrayOf(i)[k] = Fin(0)
                    /\ ArrayBefore(i)[k].cls = "finite"
                          => ArrayOf(i)[k] = ArrayBefore(i)[k]

\* C2 witness: a pass has cleaned a mesh array holding a finite element
\* after a non-finite one, and another mesh array holding an infinity.
C2_Witness ==
    /\ Cleaned
    /\ \E i \in 1..Len(LoadedNodes) :
        /\ WasCleanable(i)
        /\ Len(ArrayBefore(i)) = 2
        /\ ArrayBefore(i)[1] \in {NaN, PosInfinity, NegInfinity}
        /\ ArrayBefore(i)[2] = Fin(2)
        /\ ArrayOf(i) = <<Fin(0), Fin(2)>>

\* C3: after the cleaning pass every mesh geometry with a position has a
\* bounding sphere that is not null and whose radius is neither NaN nor 0;
\* where the computed radius was NaN or 0 the sphere is the default one.
C3_BoundingSphereValid ==
    Cleaned =>
        \A i \in 1..Len(LoadedNodes) :
            WasCleanable(i) =>
                /\ GeometryOf(i).boundingSphere # <<>>
                /\ ~isNaN(GeometryOf(i).boundingSphere[1].radius)
                /\ GeometryOf(i).boundingSphere[1].radius # Fin(0)
                /\ computed[i] # <<>>
                /\ (~computed[i][1].throws /\ computed[i][1].radius \in {NaN, Fin(0)})
                      => GeometryOf(i).boundingSphere = <<DefaultSphere>>
                /\ (~computed[i][1].throws /\ computed[i][1].radius \notin {NaN, Fin(0)})
                      => GeometryOf(i).boundingSphere[1].radius = computed[i][1].radius

\* C3 witness: one pass met a computed radius of 0 and one of NaN.
C3_Witness ==
    /\ Cleaned
    /\ \E i, j \in 1..Len(LoadedNodes) :
        /\ WasCleanable(i) /\ WasCleanable(j)
        /\ computed[i] = <<[throws |-> FALSE, radius |-> Fin(0)]>>
        /\ computed[j] = <<[throws |-> FALSE, radius |-> NaN]>>
        /\ GeometryOf(i).boundingSphere = <<DefaultSphere>>
        /\ GeometryOf(j).boundingSphere = <<DefaultSphere>>

\* C4: once the mount effect has run, isMobile equals the match state of the
\* media query after every handled change, and the displayed object (model
\* or placeholder) has the small-screen scale and position exactly when
\* isMobile is true.
C4_IsMobileFollowsMediaQuery ==
    /\ mountPhase = "mounted" => isMobile = mediaMatches
    /\ view.kind = "model" =>
        /\ Len(view.parts) = 1
        /\ Placed(view.parts[1], MainSmall, MainLarge)
    /\ view.kind = "fallback" =>
        /\ Len(view.parts) = 2
        /\ Placed(view.parts[1], MainSmall, MainLarge)
        /\ Placed(view.parts[2], BaseSmall, BaseLarge)

\* C4 witness: mounted with the query not matching while the model is shown
\* (a state the handler reaches from a matching query, and the mount effect
\* from a query that never matched).
C4_Witness ==
    /\ mountPhase = "mounted"
    /\ ~mediaMatches
    /\ ~isMobile
    /\ view.kind = "model"
    /\ view.parts[1].scale = 60

\* C5: the cleaning pass runs once for the loaded scene, looks at each
\* element of each mesh position array once, and is not scheduled again by
\* later renders of the same scene.
C5_CleaningOneShot ==
    /\ cleanRuns <= 1
    /\ Cleaned =>
        /\ ~effectPending
        /\ scanned = Sum([i \in 1..Len(LoadedNodes) |->
                            IF WasCleanable(i) THEN Len(ArrayBefore(i)) ELSE 0])

\* C5 witness: the pass has run, it scanned two elements, and the model is
\* shown for a small screen.
C5_Witness ==
    /\ cleanRuns = 1
    /\ scanned = 2
    /\ mountPhase = "mounted"
    /\ isMobile
    /\ view.kind = "model"

\* C6: where computeBoundingSphere threw, the geometry has the default
\* sphere, the meshes after it were visited all the same, and the cleaned
\* scene was published.
C6_ThrowIsContained ==
    Cleaned =>
        \A i \in 1..Len(LoadedNodes) :
            (computed[i] # <<>> /\ computed[i][1].throws) =>
                /\ GeometryOf(i).boundingSphere = <<DefaultSphere>>
                /\ \A j \in (i + 1)..Len(LoadedNodes) :
                    WasCleanable(j) => computed[j] # <<>>
                /\ cleanScene # <<>>
                /\ cleanScene[1].id = "cleanedScene"

\* C6 witness: computeBoundingSphere threw on a mesh, a later mesh got a
\* computed sphere, and the scene was published.
C6_Witness ==
    /\ Cleaned
    /\ cleanScene # <<>>
    /\ \E i, j \in 1..Len(LoadedNodes) :
        /\ i < j
        /\ computed[i] # <<>> /\ computed[i][1].throws
        /\ computed[j] = <<[throws |-> FALSE, radius |-> Fin(3)]>>
        /\ GeometryOf(j).boundingSphere[1].radius = Fin(3)

\* C7: the pass marks a position attribute for update exactly when it
\* replaced an element of its array; a node that is not a mesh, a mesh
\* without geometry and a geometry without position are left as they were.
C7_NeedsUpdateIffFixed ==
    Cleaned =>
        /\ DOMAIN geoms = DOMAIN before
        /\ \A i \in 1..Len(LoadedNodes) :
            /\ WasCleanable(i) =>
                (GeometryOf(i).position[1].version
                    # GeometryBefore(i).position[1].version
                 <=> HasNonFinite(ArrayBefore(i)))
            /\ (~WasCleanable(i) /\ LoadedNodes[i].geometry # <<>>) =>
                /\ GeometryOf(i) = GeometryBefore(i)
                /\ computed[i] = <<>>

\* C7 witness: the pass marked one mesh array, and left alone an object that
\* is no mesh although its array holds a non-finite element.
C7_Witness ==
    /\ Cleaned
    /\ \E i, j \in 1..Len(LoadedNodes) :
        /\ WasCleanable(i)
        /\ GeometryOf(i).position[1].version = 1
        /\ ~LoadedNodes[j].isMesh
        /\ LoadedNodes[j].geometry # <<>>
        /\ GeometryOf(j).position # <<>>
        /\ HasNonFinite(GeometryOf(j).position[1].array)

\* C8: the cleaning pass leaves the geometries of the loaded gltf.scene (their
\* position arrays and bounding spheres) as they were before it.
C8_LoadedSceneUntouched ==
    Cleaned =>
        \A i \in 1..Len(LoadedNodes) :
            LoadedNodes[i].geometry # <<>> => GeometryOf(i) = GeometryBefore(i)

\* A cleaning pass has completed on every mesh of the given nodes.
PassCompleted(nodes) ==
    /\ Cleaned
    /\ \A i \in 1..Len(nodes) :
        Cleanable(geoms, nodes[i]) =>
            /\ computed[i] # <<>>
            /\ ~HasNonFinite(geoms[nodes[i].geometry[1]].position[1].array)
            /\ geoms[nodes[i].geometry[1]].boundingSphere # <<>>
            /\ geoms[nodes[i].geometry[1]].boundingSphere[1].radius.cls = "finite"
            /\ geoms[nodes[i].geometry[1]].boundingSphere[1].radius.v > 0

\* The displayed scene is the published clone, with a completed pass.
DisplayedSceneIsCleaned ==
    view.kind = "model" =>
        /\ cleanScene # <<>>
        /\ view.object = <<cleanScene[1].id>>
        /\ view.object # <<gltfScene[1].id>>
        /\ PassCompleted(cleanScene[1].nodes)

\* C9: the scene given to <primitive> is always the clone on which a cleaning
\* pass has completed, never the loaded scene itself; once cleanScene is set
\* it stays set, and once the model is shown the placeholder never returns.
C9_OnlyCleanedSceneDisplayed ==
    /\ []DisplayedSceneIsCleaned
    /\ [][(cleanScene # <<>> => cleanScene' # <<>>)
          /\ (view.kind = "model" => view'.kind = "model")]_vars

\* C9 witness: the model is shown after a pass that replaced an element and
\* a sphere, and the media query changed while it was shown or before.
C9_Witness ==
    /\ view.kind = "model"
    /\ isMobile
    /\ \E i \in 1..Len(LoadedNodes) :
        /\ WasCleanable(i)
        /\ HasNonFinite(ArrayBefore(i))
        /\ GeometryOf(i).boundingSphere = <<DefaultSphere>>

====
